---- MODULE Spec2Model ----
(***************************************************************************)
(* Meek STV with a fixed Droop quota (stv_election.py).                    *)
(*                                                                         *)
(* Python floats are modelled in fixed point: a real x is the integer      *)
(* x * SCALE, and every multiplication or division rounds to the nearest   *)
(* unit, as a float operation rounds to the nearest float.  Additions and  *)
(* subtractions are exact.  CONVERGENCE_THRESHOLD (1e-9) is coarser than   *)
(* the resolution of a float (2.2e-16); here it is 2 units, so that a      *)
(* non-zero amount can be below the threshold, as in the program.          *)
(***************************************************************************)
EXTENDS Integers, Sequences, FiniteSets

\* ---- bounds of the model ----
SCALE == 100
MaxLines == 4

\* ---- program constants ----
MAX_ITERATIONS == 1000
CONVERGENCE_THRESHOLD == 2

\* ---- configuration (main.py) ----
WS == " "
candidate_names == <<"A", "B", "C">>
Candidates == {candidate_names[n] : n \in 1..Len(candidate_names)}

\* The lines a ballot file is made of: blank, repeated symbol, unknown
\* symbol, and valid rankings (one of them padded with whitespace).
InputLines ==
  { <<WS>>, <<"A", "A">>, <<"A", "X">>,
    <<"A", "B">>, <<"B">>, <<"C">>, <<WS, "B", "A", WS>> }

RECURSIVE FilesOfLen(_)
FilesOfLen(n) ==
  IF n = 0 THEN {<<>>}
  ELSE {Append(f, l) : f \in FilesOfLen(n - 1), l \in InputLines}

Files == UNION {FilesOfLen(n) : n \in 0..MaxLines}

VARIABLES
  pc,                  \* position in run_election / _run_main_loop
  file_exists,         \* whether open(filepath) succeeds
  file,                \* the lines of the ballot file
  votes,               \* self.votes: the ballot store
  num_winners,         \* self.num_winners
  droop_quota,         \* self.droop_quota
  cand_votes,          \* Candidate.votes, in units of 1/SCALE
  keep_rate,           \* Candidate.keep_rate, in units of 1/SCALE
  is_winner,           \* Candidate.is_winner
  is_loser,            \* Candidate.is_loser
  round_num,           \* round_num of _run_main_loop
  active_candidates,   \* the list built at the top of the main loop
  final_round,         \* which branch of the main loop called the iteration
  i,                   \* loop index of _run_meek_iteration
  previous_keep_rates  \* snapshot taken at the top of an iteration

vars == <<pc, file_exists, file, votes, num_winners, droop_quota, cand_votes,
          keep_rate, is_winner, is_loser, round_num, active_candidates,
          final_round, i, previous_keep_rates>>

\* ---- arithmetic ----
Abs(x) == IF x < 0 THEN -x ELSE x

\* a / b rounded to the nearest integer (a >= 0, b > 0)
RoundDiv(a, b) == (2 * a + b) \div (2 * b)

\* x * y for two fixed-point numbers
FMul(x, y) == RoundDiv(x * y, SCALE)

\* x / y for two fixed-point numbers
FDiv(x, y) == RoundDiv(x * SCALE, y)

RECURSIVE SumOver(_, _)
SumOver(S, f) ==
  IF S = {} THEN 0
  ELSE LET x == CHOOSE y \in S : TRUE IN f[x] + SumOver(S \ {x}, f)

\* ---- Candidate ----
IsActive(c) == ~is_winner[c] /\ ~is_loser[c]

ActiveSet == {c \in Candidates : IsActive(c)}

\* ---- _load_data ----
RECURSIVE LStrip(_)
LStrip(l) == IF l # <<>> /\ Head(l) = WS THEN LStrip(Tail(l)) ELSE l

RECURSIVE RStrip(_)
RStrip(l) ==
  IF l # <<>> /\ l[Len(l)] = WS THEN RStrip(SubSeq(l, 1, Len(l) - 1)) ELSE l

Strip(l) == RStrip(LStrip(l))

\* list(dict.fromkeys(prefs)): first occurrences, in order
RECURSIVE UniquePrefs(_)
UniquePrefs(prefs) ==
  IF prefs = <<>> THEN <<>>
  ELSE LET init == UniquePrefs(SubSeq(prefs, 1, Len(prefs) - 1))
           last == prefs[Len(prefs)]
       IN IF \E k \in 1..Len(init) : init[k] = last THEN init
          ELSE Append(init, last)

\* the validity test without the comparison of lengths
IsValidBallot_NoDuplicateCheck(prefs) ==
  \A k \in 1..Len(prefs) : prefs[k] \in Candidates

IsValidBallot(prefs) ==
  ~(Len(prefs) # Len(UniquePrefs(prefs))
    \/ ~(\A k \in 1..Len(prefs) : prefs[k] \in Candidates))

RECURSIVE LoadLines(_, _)
LoadLines(lines, store) ==
  IF lines = <<>> THEN store
  ELSE LET line == Strip(Head(lines))
       IN IF line = <<>> THEN LoadLines(Tail(lines), store)
          ELSE IF ~IsValidBallot(line) THEN LoadLines(Tail(lines), store)
          ELSE LoadLines(Tail(lines), Append(store, line))

\* ---- _calculate_droop_quota ----
\* the quota without the final + 1
DroopQuota_NoPlusOne(n, w) == n \div (w + 1)

DroopQuota(n, w) == (n \div (w + 1)) + 1

\* ---- _recalculate_votes ----
\* the walk without "vote_value -= transfer_value"
RECURSIVE WalkBallot_NoSubtract(_, _, _, _, _, _)
WalkBallot_NoSubtract(prefs, k, vote_value, cv, kr, act) ==
  IF k > Len(prefs) THEN [votes |-> cv, rem |-> vote_value]
  ELSE IF vote_value < CONVERGENCE_THRESHOLD
       THEN [votes |-> cv, rem |-> vote_value]
  ELSE LET c == prefs[k]
           current_keep_rate == IF c \in act THEN kr[c] ELSE 0
           transfer_value == FMul(vote_value, current_keep_rate)
       IN WalkBallot_NoSubtract(prefs, k + 1, vote_value,
                                [cv EXCEPT ![c] = @ + transfer_value], kr, act)

\* the walk without the test of is_winner and is_loser
RECURSIVE WalkBallot_KeepForInactive(_, _, _, _, _, _)
WalkBallot_KeepForInactive(prefs, k, vote_value, cv, kr, act) ==
  IF k > Len(prefs) THEN [votes |-> cv, rem |-> vote_value]
  ELSE IF vote_value < CONVERGENCE_THRESHOLD
       THEN [votes |-> cv, rem |-> vote_value]
  ELSE LET c == prefs[k]
           current_keep_rate == kr[c]
           transfer_value == FMul(vote_value, current_keep_rate)
       IN WalkBallot_KeepForInactive(prefs, k + 1,
                                     vote_value - transfer_value,
                                     [cv EXCEPT ![c] = @ + transfer_value],
                                     kr, act)

\* The walk of one ballot from preference k on, with vote_value left and the
\* totals cv so far; rem is vote_value when the walk stops.
RECURSIVE WalkBallot(_, _, _, _, _, _)
WalkBallot(prefs, k, vote_value, cv, kr, act) ==
  IF k > Len(prefs) THEN [votes |-> cv, rem |-> vote_value]
  ELSE IF vote_value < CONVERGENCE_THRESHOLD
       THEN [votes |-> cv, rem |-> vote_value]
  ELSE LET c == prefs[k]
           current_keep_rate == IF c \in act THEN kr[c] ELSE 0
           transfer_value == FMul(vote_value, current_keep_rate)
       IN WalkBallot(prefs, k + 1, vote_value - transfer_value,
                     [cv EXCEPT ![c] = @ + transfer_value], kr, act)

RECURSIVE WalkAll(_, _, _, _)
WalkAll(bs, cv, kr, act) ==
  IF bs = <<>> THEN cv
  ELSE WalkAll(Tail(bs), WalkBallot(Head(bs), 1, SCALE, cv, kr, act).votes,
               kr, act)

RecalculateVotes(bs, kr, act) ==
  WalkAll(bs, [c \in Candidates |-> 0], kr, act)

\* ---- _run_meek_iteration: the keep-rate update of one iteration ----
\* the update without the test "c.votes > self.droop_quota"
UpdatedKeepRate_NoQuotaGuard(c) ==
  IF IsActive(c) /\ cand_votes[c] > 0
  THEN FMul(keep_rate[c], FDiv(droop_quota * SCALE, cand_votes[c]))
  ELSE keep_rate[c]

\* the factor upside down: votes / quota
UpdatedKeepRate_Inverted(c) ==
  IF IsActive(c) /\ cand_votes[c] > droop_quota * SCALE
  THEN FMul(keep_rate[c], FDiv(cand_votes[c], droop_quota * SCALE))
  ELSE keep_rate[c]

UpdatedKeepRate(c) ==
  IF IsActive(c) /\ cand_votes[c] > droop_quota * SCALE
  THEN FMul(keep_rate[c], FDiv(droop_quota * SCALE, cand_votes[c]))
  ELSE keep_rate[c]

\* the sum taken against the default of previous_keep_rates.get(name, 0)
RateChanged_AgainstZero(new, old) ==
  SumOver(Candidates, [c \in Candidates |-> Abs(new[c] - 0)])

RateChanged(new, old) ==
  SumOver(Candidates, [c \in Candidates |-> Abs(new[c] - old[c])])

\* ---- initial state: the object after __init__ ----
Init ==
  /\ pc = "load"
  /\ file_exists \in BOOLEAN
  /\ file \in Files
  /\ (~file_exists => file = <<>>)
  /\ votes = <<>>
  /\ num_winners \in 1..Len(candidate_names)
  /\ droop_quota = 0
  /\ cand_votes = [c \in Candidates |-> 0]
  /\ keep_rate = [c \in Candidates |-> SCALE]
  /\ is_winner = [c \in Candidates |-> FALSE]
  /\ is_loser = [c \in Candidates |-> FALSE]
  /\ round_num = 0
  /\ active_candidates = {}
  /\ final_round = FALSE
  /\ i = 0
  /\ previous_keep_rates = [c \in Candidates |-> 0]

\* ---- run_election ----
LoadData ==
  /\ pc = "load"
  /\ votes' = IF file_exists THEN LoadLines(file, votes) ELSE <<>>
  /\ pc' = "loaded"
  /\ UNCHANGED <<file_exists, file, num_winners, droop_quota, cand_votes,
                 keep_rate, is_winner, is_loser, round_num, active_candidates,
                 final_round, i, previous_keep_rates>>

\* the emptiness test placed after _calculate_droop_quota
NoValidVotes_AfterQuota ==
  /\ pc = "loaded"
  /\ votes = <<>>
  /\ droop_quota' = DroopQuota(Len(votes), num_winners)
  /\ pc' = "returned"
  /\ UNCHANGED <<file_exists, file, votes, num_winners, cand_votes,
                 keep_rate, is_winner, is_loser, round_num, active_candidates,
                 final_round, i, previous_keep_rates>>

NoValidVotes ==
  /\ pc = "loaded"
  /\ votes = <<>>
  /\ pc' = "returned"
  /\ UNCHANGED <<file_exists, file, votes, num_winners, droop_quota,
                 cand_votes, keep_rate, is_winner, is_loser, round_num,
                 active_candidates, final_round, i, previous_keep_rates>>

CalculateDroopQuota ==
  /\ pc = "loaded"
  /\ votes # <<>>
  /\ droop_quota' = DroopQuota(Len(votes), num_winners)
  /\ round_num' = 1
  /\ pc' = "round"
  /\ UNCHANGED <<file_exists, file, votes, num_winners, cand_votes, keep_rate,
                 is_winner, is_loser, active_candidates, final_round, i,
                 previous_keep_rates>>

\* ---- _run_main_loop: top of the while loop ----
RoundStart ==
  /\ pc = "round"
  /\ active_candidates' = ActiveSet
  /\ final_round' = (Cardinality(ActiveSet) <= num_winners)
  /\ pc' = "meek_reset"
  /\ UNCHANGED <<file_exists, file, votes, num_winners, droop_quota,
                 cand_votes, keep_rate, is_winner, is_loser, round_num, i,
                 previous_keep_rates>>

\* ---- _run_meek_iteration ----
\* the loop entered with the keep rates of the previous round
MeekReset_NoReset ==
  /\ pc = "meek_reset"
  /\ i' = 0
  /\ pc' = "meek_recalc"
  /\ UNCHANGED <<file_exists, file, votes, num_winners, droop_quota,
                 cand_votes, keep_rate, is_winner, is_loser, round_num,
                 active_candidates, final_round, previous_keep_rates>>

MeekReset ==
  /\ pc = "meek_reset"
  /\ keep_rate' = [c \in Candidates |->
                     IF IsActive(c) THEN SCALE ELSE keep_rate[c]]
  /\ i' = 0
  /\ pc' = "meek_recalc"
  /\ UNCHANGED <<file_exists, file, votes, num_winners, droop_quota,
                 cand_votes, is_winner, is_loser, round_num,
                 active_candidates, final_round, previous_keep_rates>>

MeekRecalc ==
  /\ pc = "meek_recalc"
  /\ previous_keep_rates' = keep_rate
  /\ cand_votes' = RecalculateVotes(votes, keep_rate, ActiveSet)
  /\ pc' = "meek_update"
  /\ UNCHANGED <<file_exists, file, votes, num_winners, droop_quota,
                 keep_rate, is_winner, is_loser, round_num, active_candidates,
                 final_round, i>>

\* the loop as "while True": no iteration cap
MeekUpdate_NoCap ==
  /\ pc = "meek_update"
  /\ LET new == [c \in Candidates |-> UpdatedKeepRate(c)]
     IN /\ keep_rate' = new
        /\ i' = i + 1
        /\ pc' = IF RateChanged(new, previous_keep_rates)
                      < CONVERGENCE_THRESHOLD
                 THEN "meek_final"
                 ELSE "meek_recalc"
  /\ UNCHANGED <<file_exists, file, votes, num_winners, droop_quota,
                 cand_votes, is_winner, is_loser, round_num,
                 active_candidates, final_round, previous_keep_rates>>

MeekUpdate ==
  /\ pc = "meek_update"
  /\ LET new == [c \in Candidates |-> UpdatedKeepRate(c)]
     IN /\ keep_rate' = new
        /\ i' = i + 1
        /\ pc' = IF RateChanged(new, previous_keep_rates)
                      < CONVERGENCE_THRESHOLD
                 THEN "meek_final"
                 ELSE IF i + 1 >= MAX_ITERATIONS THEN "meek_final"
                 ELSE "meek_recalc"
  /\ UNCHANGED <<file_exists, file, votes, num_winners, droop_quota,
                 cand_votes, is_winner, is_loser, round_num,
                 active_candidates, final_round, previous_keep_rates>>

\* the return without the last call of _recalculate_votes
MeekFinalRecalc_Skipped ==
  /\ pc = "meek_final"
  /\ pc' = IF final_round THEN "decide" ELSE "eliminate"
  /\ UNCHANGED <<file_exists, file, votes, num_winners, droop_quota,
                 cand_votes, keep_rate, is_winner, is_loser, round_num,
                 active_candidates, final_round, i, previous_keep_rates>>

MeekFinalRecalc ==
  /\ pc = "meek_final"
  /\ cand_votes' = RecalculateVotes(votes, keep_rate, ActiveSet)
  /\ pc' = IF final_round THEN "decide" ELSE "eliminate"
  /\ UNCHANGED <<file_exists, file, votes, num_winners, droop_quota,
                 keep_rate, is_winner, is_loser, round_num, active_candidates,
                 final_round, i, previous_keep_rates>>

\* ---- _eliminate_loser (and round_num += 1) ----
\* max in place of min
MinVotes_Max(S) == CHOOSE m \in {cand_votes[c] : c \in S} :
                     \A c \in S : m >= cand_votes[c]

MinVotes(S) == CHOOSE m \in {cand_votes[c] : c \in S} :
                 \A c \in S : m <= cand_votes[c]

\* a tie broken in favour of all but one of the tied candidates
Losers_OnlyOne ==
  IF ActiveSet = {} THEN {}
  ELSE {CHOOSE c \in ActiveSet : cand_votes[c] = MinVotes(ActiveSet)}

\* the minimum taken over every candidate, decided ones included
Losers_MinOverAll ==
  IF ActiveSet = {} THEN {}
  ELSE {c \in ActiveSet :
          Abs(cand_votes[c] - MinVotes(Candidates)) < CONVERGENCE_THRESHOLD}

Losers ==
  IF ActiveSet = {} THEN {}
  ELSE {c \in ActiveSet :
          Abs(cand_votes[c] - MinVotes(ActiveSet)) < CONVERGENCE_THRESHOLD}

\* is_loser assigned for every candidate from this round's comparison
EliminatedFlags_Recomputed == [c \in Candidates |-> c \in Losers]

EliminatedFlags == [c \in Candidates |-> is_loser[c] \/ c \in Losers]

\* _run_single_round calling _elect_winners (lines 138-145) before eliminating
SingleRoundElected_Progressive ==
  {c \in ActiveSet : cand_votes[c] > droop_quota * SCALE}

\* _run_single_round: "In regular rounds, we only eliminate, not elect."
SingleRoundElected == {}

EliminateLoser ==
  /\ pc = "eliminate"
  /\ is_loser' = EliminatedFlags
  /\ is_winner' = [c \in Candidates |->
                     is_winner[c] \/ c \in SingleRoundElected]
  /\ round_num' = round_num + 1
  /\ pc' = "round"
  /\ UNCHANGED <<file_exists, file, votes, num_winners, droop_quota,
                 cand_votes, keep_rate, active_candidates, final_round, i,
                 previous_keep_rates>>

\* ---- _run_main_loop: the terminal branch after the iteration ----
\* ">=" in place of ">"
Winners_AtLeastQuota ==
  {c \in active_candidates : cand_votes[c] >= droop_quota * SCALE}

Winners == {c \in active_candidates : cand_votes[c] > droop_quota * SCALE}

\* the loop without its else branch
DecidedLosers_None == {}

\* the else branch taken for every candidate of the snapshot
DecidedLosers_All == active_candidates

DecidedLosers == active_candidates \ Winners

DecideWinners ==
  /\ pc = "decide"
  /\ is_winner' = [c \in Candidates |-> is_winner[c] \/ c \in Winners]
  /\ is_loser' = [c \in Candidates |-> is_loser[c] \/ c \in DecidedLosers]
  /\ pc' = "display"
  /\ UNCHANGED <<file_exists, file, votes, num_winners, droop_quota,
                 cand_votes, keep_rate, round_num, active_candidates,
                 final_round, i, previous_keep_rates>>

\* ---- _display_final_results ----
DisplayFinalResults ==
  /\ pc = "display"
  /\ pc' = "done"
  /\ UNCHANGED <<file_exists, file, votes, num_winners, droop_quota,
                 cand_votes, keep_rate, is_winner, is_loser, round_num,
                 active_candidates, final_round, i, previous_keep_rates>>

Next ==
  \/ LoadData
  \/ NoValidVotes
  \/ CalculateDroopQuota
  \/ RoundStart
  \/ MeekReset
  \/ MeekRecalc
  \/ MeekUpdate
  \/ MeekFinalRecalc
  \/ EliminateLoser
  \/ DecideWinners
  \/ DisplayFinalResults

Spec == Init /\ [][Next]_vars

\* The program is sequential and never waits: a step that can be taken is
\* taken.
SpecFair == Spec /\ WF_vars(Next)

\* ---- _recalculate_votes on its own: any ballots, keep rates and statuses ----
MaxArbBallots == 2

ArbBallots ==
  { <<"A">>, <<"B">>, <<"A", "B">>, <<"B", "A">>, <<"B", "C">>, <<"C", "A">>,
    <<"A", "B", "C">>, <<"C", "B", "A">> }

RECURSIVE StoresOfLen(_)
StoresOfLen(n) ==
  IF n = 0 THEN {<<>>}
  ELSE {Append(f, l) : f \in StoresOfLen(n - 1), l \in ArbBallots}

ArbKeepRates == {0, SCALE \div 3, SCALE - 1, SCALE}

InitRecalc ==
  /\ pc = "recalc"
  /\ file_exists = TRUE
  /\ file = <<>>
  /\ votes \in UNION {StoresOfLen(n) : n \in 0..MaxArbBallots}
  /\ num_winners = 1
  /\ droop_quota = 0
  /\ cand_votes = [c \in Candidates |-> 0]
  /\ keep_rate \in [Candidates -> ArbKeepRates]
  /\ is_winner \in [Candidates -> BOOLEAN]
  /\ is_loser \in [Candidates -> BOOLEAN]
  /\ \A c \in Candidates : ~(is_winner[c] /\ is_loser[c])
  /\ round_num = 0
  /\ active_candidates = {}
  /\ final_round = FALSE
  /\ i = 0
  /\ previous_keep_rates = [c \in Candidates |-> 0]

RecalculateAny ==
  /\ pc = "recalc"
  /\ cand_votes' = RecalculateVotes(votes, keep_rate, ActiveSet)
  /\ pc' = "recalculated"
  /\ UNCHANGED <<file_exists, file, votes, num_winners, droop_quota,
                 keep_rate, is_winner, is_loser, round_num, active_candidates,
                 final_round, i, previous_keep_rates>>

NextRecalc == RecalculateAny

SpecRecalc == InitRecalc /\ [][NextRecalc]_vars

\* ---- a run taken up inside a convergence loop, shortly before the cap ----
\* The election is in some round, at the top of one of the last iterations,
\* with keep rates that many slow iterations have left.
CapKeepRates == {SCALE \div 3, SCALE}

InitCap ==
  /\ pc = "meek_recalc"
  /\ file_exists = TRUE
  /\ file = <<>>
  /\ votes \in UNION {StoresOfLen(n) : n \in 1..MaxArbBallots}
  /\ num_winners \in 1..Len(candidate_names)
  /\ droop_quota = DroopQuota(Len(votes), num_winners)
  /\ cand_votes = [c \in Candidates |-> 0]
  /\ keep_rate \in [Candidates -> CapKeepRates]
  /\ is_winner = [c \in Candidates |-> FALSE]
  /\ is_loser \in [Candidates -> BOOLEAN]
  /\ round_num = IF \E c \in Candidates : is_loser[c] THEN 2 ELSE 1
  /\ active_candidates = ActiveSet
  /\ final_round = (Cardinality(ActiveSet) <= num_winners)
  /\ i \in {MAX_ITERATIONS - 2, MAX_ITERATIONS - 1}
  /\ previous_keep_rates = keep_rate

NextCap ==
  \/ RoundStart
  \/ MeekReset
  \/ MeekRecalc
  \/ MeekUpdate
  \/ MeekFinalRecalc
  \/ EliminateLoser
  \/ DecideWinners
  \/ DisplayFinalResults

SpecCap == InitCap /\ [][NextCap]_vars /\ WF_vars(NextCap)

\* ======================= properties =======================

HasWinner == \E c \in Candidates : is_winner[c]

QuotaUnits == droop_quota * SCALE

\* The election of the scenario: candidates A, B, C, one seat, ballots
\* AB, AB, B, C in the store.
Scenario ==
  /\ Candidates = {"A", "B", "C"}
  /\ num_winners = 1
  /\ votes = << <<"A", "B">>, <<"A", "B">>, <<"B">>, <<"C">> >>

InRun == pc \notin {"load", "loaded", "returned", "recalc", "recalculated"}

\* What the scenario's first round and elimination do (common to both
\* statements of C1).
ScenarioRoundOne ==
  /\ InRun => droop_quota = 3
  /\ (round_num = 1 /\ pc \in {"meek_update", "meek_final", "eliminate"})
       => cand_votes = [c \in Candidates |->
                          IF c = "A" THEN 2 * SCALE ELSE SCALE]
  /\ (round_num = 1 /\ pc \in {"meek_recalc", "meek_update"}) => i = 0
  /\ (round_num = 1 /\ pc \in {"meek_final", "eliminate"}) => i = 1
  /\ (round_num = 1 /\ pc \in {"meek_recalc", "meek_update", "meek_final",
                                 "eliminate"})
       => /\ keep_rate = [c \in Candidates |-> SCALE]
          /\ \A c \in Candidates : IsActive(c)
  /\ InRun => round_num \in {1, 2}
  /\ round_num = 2 => is_loser["B"] /\ is_loser["C"]
  /\ (round_num = 2 /\ pc \in {"round", "meek_reset", "meek_recalc",
                                 "meek_update", "meek_final", "decide"})
       => IsActive("A")
  /\ pc \in {"decide", "display", "done"} => round_num = 2 /\ final_round

\* C1 as claimed: in the scenario the quota is 3, round 1 gives A=2, B=1, C=1
\* without changing a keep rate, B and C are eliminated together, and in the
\* terminal round A receives 4.0 votes and ends Elected.
C1_Original ==
  Scenario =>
    /\ ScenarioRoundOne
    /\ pc \in {"decide", "display", "done"} => cand_votes["A"] = 4 * SCALE
    /\ pc \in {"display", "done"} => is_winner["A"]

\* C1 (amended): in the scenario the quota is 3, round 1 gives A=2, B=1, C=1
\* without changing a keep rate, B and C are eliminated together; in the
\* terminal round A receives 2.0 votes (the ballots B and C rank no Active
\* candidate), which does not exceed the quota, and the run ends with A
\* Eliminated and nobody Elected.
C1_Scenario ==
  Scenario =>
    /\ ScenarioRoundOne
    /\ pc \in {"decide", "display", "done"}
         => cand_votes = [c \in Candidates |->
                            IF c = "A" THEN 2 * SCALE ELSE 0]
    /\ pc \in {"display", "done"}
         => is_loser["A"] /\ ~HasWinner

C1_Witness ==
  /\ Scenario
  /\ pc = "done"
  /\ cand_votes["A"] = 2 * SCALE
  /\ is_loser["A"] /\ is_loser["B"] /\ is_loser["C"]

\* C2: once computed, droop_quota is floor(N / (W + 1)) + 1 for the N ballots
\* of the store and the W seats, in every state of every round and
\* convergence iteration until the run ends.
C2_QuotaFixed ==
  InRun => /\ Len(votes) >= 1
           /\ droop_quota = (Len(votes) \div (num_winners + 1)) + 1

\* a later round, inside its convergence loop, after an elimination and with
\* a ballot that is exhausted (it ranks eliminated candidates only)
C2_Witness ==
  /\ pc = "meek_update"
  /\ round_num >= 2
  /\ i >= 1
  /\ \E b \in 1..Len(votes) :
       \A k \in 1..Len(votes[b]) : is_loser[votes[b][k]]
  /\ droop_quota = (Len(votes) \div (num_winners + 1)) + 1

Finished == pc \in {"display", "done"}

\* C3: at the end of a run a candidate is Elected iff it was Active at the
\* start of the terminal round and its votes after the terminal convergence
\* loop are strictly greater than the quota; a terminal-round Active
\* candidate with votes equal to the quota is Eliminated.
C3_TerminalStrictness ==
  Finished =>
    \A c \in Candidates :
      /\ is_winner[c] <=> (c \in active_candidates /\ cand_votes[c] > QuotaUnits)
      /\ (c \in active_candidates /\ cand_votes[c] = QuotaUnits)
           => (is_loser[c] /\ ~is_winner[c])

\* a finished run whose terminal round had two Active candidates, one ending
\* exactly at the quota and Eliminated, while an earlier loser stays unelected
C3_Witness ==
  /\ pc = "done"
  /\ Cardinality(active_candidates) >= 2
  /\ \E c \in active_candidates :
       cand_votes[c] = QuotaUnits /\ is_loser[c] /\ ~is_winner[c]
  /\ \E c \in Candidates \ active_candidates : ~is_winner[c]

\* C4: status is absorbing: an Elected candidate stays Elected and an
\* Eliminated candidate stays Eliminated in every later state.
C4_StatusAbsorbing ==
  [][\A c \in Candidates :
       /\ is_winner[c] => (is_winner'[c] /\ ~is_loser'[c])
       /\ is_loser[c] => (is_loser'[c] /\ ~is_winner'[c])]_vars

\* a finished run in which a candidate eliminated in an earlier round is
\* still Eliminated and a candidate has been Elected
C4_Witness ==
  /\ pc = "done"
  /\ round_num >= 2
  /\ \E c \in Candidates \ active_candidates : is_loser[c] /\ ~is_winner[c]
  /\ HasWinner

\* the value left on each ballot when its walk stops, summed over the store
RECURSIVE ExhaustedRemainder(_, _, _)
ExhaustedRemainder(bs, kr, act) ==
  IF bs = <<>> THEN 0
  ELSE WalkBallot(Head(bs), 1, SCALE, [c \in Candidates |-> 0], kr, act).rem
       + ExhaustedRemainder(Tail(bs), kr, act)

TotalVotes == SumOver(Candidates, cand_votes)

\* the states right after a redistribution pass, before any keep rate or
\* status has changed
JustRecalculated ==
  pc \in {"recalculated", "meek_update", "eliminate", "decide"}

\* C5: after a redistribution pass, whatever the keep rates and statuses, the
\* candidates' votes plus the value left unassigned on the ballots add up to
\* the number of ballots (to within the convergence threshold); the
\* candidates' votes never exceed it.
C5_Conservation ==
  /\ JustRecalculated =>
       Abs(TotalVotes + ExhaustedRemainder(votes, keep_rate, ActiveSet)
             - Len(votes) * SCALE) < CONVERGENCE_THRESHOLD
  /\ TotalVotes <= Len(votes) * SCALE

\* a pass with a fractional keep rate, a pass-through candidate and value
\* left over on a ballot
C5_Witness ==
  /\ pc = "recalculated"
  /\ \E c \in ActiveSet : keep_rate[c] \notin {0, SCALE} /\ cand_votes[c] > 0
  /\ \E c \in Candidates \ ActiveSet :
       \E b \in 1..Len(votes) : votes[b][1] = c
  /\ ExhaustedRemainder(votes, keep_rate, ActiveSet) > 0
  /\ TotalVotes > 0

InLoop == pc \in {"meek_recalc", "meek_update", "meek_final"}

\* C6: inside the convergence loop (after the reset) no step raises an Active
\* candidate's keep rate, and a keep rate changes only for a candidate whose
\* votes exceed the quota.
C6_KeepRateNonIncreasing ==
  [][InLoop =>
       \A c \in ActiveSet :
         /\ keep_rate'[c] <= keep_rate[c]
         /\ keep_rate'[c] # keep_rate[c] => cand_votes[c] > QuotaUnits]_vars

\* the keep rate of an Active candidate shrank in two successive iterations
C6_Witness ==
  /\ pc = "meek_recalc"
  /\ i >= 2
  /\ \E c \in ActiveSet :
       keep_rate[c] < previous_keep_rates[c] /\ previous_keep_rates[c] < SCALE

\* C7: nobody is Elected before the terminal round's decision, even when an
\* Active candidate is above the quota after a non-terminal convergence
\* loop; a non-terminal round only turns Active candidates into Eliminated.
C7_WinnersOnlyInTerminalRound ==
  /\ [](~Finished => ~HasWinner)
  /\ [][pc = "eliminate" =>
          /\ is_winner' = is_winner
          /\ \A c \in Candidates :
               is_loser'[c] # is_loser[c] => (IsActive(c) /\ is_loser'[c])]_vars

\* after the elimination of a non-terminal round whose convergence loop left
\* a surviving candidate above the quota: still nobody Elected
C7_Witness ==
  /\ pc = "round"
  /\ round_num >= 2
  /\ \E c \in ActiveSet : cand_votes[c] > QuotaUnits
  /\ \E c \in Candidates : is_loser[c]
  /\ ~HasWinner

\* C8: with an empty store after loading, run_election returns with
\* droop_quota still 0, no round run, and every candidate Active with votes 0
\* and keep rate 1.
C8_EmptyStoreAborts ==
  /\ (pc = "loaded" /\ votes = <<>>) => ~ENABLED CalculateDroopQuota
  /\ pc = "returned" =>
       /\ votes = <<>>
       /\ droop_quota = 0
       /\ round_num = 0
       /\ \A c \in Candidates :
            IsActive(c) /\ cand_votes[c] = 0 /\ keep_rate[c] = SCALE

\* the run returned on a file that exists and holds only invalid lines
C8_Witness ==
  /\ pc = "returned"
  /\ file_exists
  /\ Len(file) >= 2
  /\ droop_quota = 0

\* C9: when a run with at least one valid ballot ends, every candidate is
\* Elected or Eliminated.
C9_NoActiveAtEnd ==
  (pc = "done" /\ Len(votes) >= 1) =>
    \A c \in Candidates : is_winner[c] \/ is_loser[c]

\* a finished run whose terminal round decided a candidate as Eliminated
C9_Witness ==
  /\ pc = "done"
  /\ Len(votes) >= 1
  /\ \E c \in active_candidates : is_loser[c]
  /\ \A c \in Candidates : is_winner[c] \/ is_loser[c]

\* a line without its leading and trailing whitespace
Trimmed(l) ==
  LET ink == {k \in 1..Len(l) : l[k] # WS}
  IN IF ink = {} THEN <<>>
     ELSE SubSeq(l, CHOOSE a \in ink : \A k \in ink : a <= k,
                    CHOOSE b \in ink : \A k \in ink : b >= k)

PairwiseDistinct(l) ==
  \A a, b \in 1..Len(l) : a # b => l[a] # l[b]

AllDeclared(l) == \A k \in 1..Len(l) : l[k] \in Candidates

Acceptable(l) == l # <<>> /\ PairwiseDistinct(l) /\ AllDeclared(l)

AcceptableLines ==
  SelectSeq([k \in 1..Len(file) |-> Trimmed(file[k])], Acceptable)

\* C10: after loading, the store holds, in input order, exactly the
\* non-blank lines (without surrounding whitespace) whose symbols are
\* pairwise distinct and all declared; so every ballot of the store is
\* duplicate-free and ranks declared candidates only.
C10_StoreIsValidLines ==
  pc \notin {"load", "recalc", "recalculated"} =>
    /\ votes = IF file_exists THEN AcceptableLines ELSE <<>>
    /\ \A b \in 1..Len(votes) :
         PairwiseDistinct(votes[b]) /\ AllDeclared(votes[b])

\* a loaded file with a repeated symbol, an unknown symbol, a padded ranking
\* and a store that holds fewer ballots than the file has lines
C10_Witness ==
  /\ pc = "loaded"
  /\ \E k \in 1..Len(file) : ~PairwiseDistinct(file[k])
  /\ \E k \in 1..Len(file) : ~AllDeclared(Trimmed(file[k]))
  /\ \E k \in 1..Len(file) : file[k] # Trimmed(file[k]) /\ Trimmed(file[k]) # <<>>
  /\ Len(votes) = 2

\* the least votes among the Active candidates
LeastActiveVotes(m) ==
  /\ \E c \in ActiveSet : cand_votes[c] = m
  /\ \A c \in ActiveSet : m <= cand_votes[c]

\* C11: in a non-terminal round the candidates whose status changes are
\* exactly the Active candidates whose votes after the convergence loop are
\* within the convergence threshold of the least Active votes; they all
\* become Eliminated in the elimination step, and no other step of the round
\* changes a status.
C11_TiedLosersTogether ==
  [][/\ pc = "eliminate" =>
          \E m \in {cand_votes[c] : c \in ActiveSet} :
            /\ LeastActiveVotes(m)
            /\ \A c \in Candidates :
                 IF IsActive(c) /\ Abs(cand_votes[c] - m) < CONVERGENCE_THRESHOLD
                 THEN is_loser'[c] /\ ~is_winner'[c]
                 ELSE is_loser'[c] = is_loser[c] /\ is_winner'[c] = is_winner[c]
     /\ pc \in {"round", "meek_reset", "meek_recalc", "meek_update",
                 "meek_final"}
          => (is_loser' = is_loser /\ is_winner' = is_winner)]_vars

\* after an elimination that removed two tied candidates at once and spared
\* a third with more votes
C11_Witness ==
  /\ pc = "round"
  /\ round_num = 2
  /\ \E c, d \in Candidates :
       /\ c # d
       /\ is_loser[c] /\ is_loser[d]
       /\ cand_votes[c] > 0
       /\ Abs(cand_votes[c] - cand_votes[d]) < CONVERGENCE_THRESHOLD
       /\ \E e \in ActiveSet : cand_votes[e] > cand_votes[c] + CONVERGENCE_THRESHOLD

\* The value a ballot b carries when its k-th preference is reached, and what
\* that preference is credited, by the rule "remaining value times keep rate
\* for an Active candidate, nothing for an Elected or Eliminated one"; with
\* stop, nothing is credited once the value is below the threshold.
RECURSIVE PassValue(_, _, _)
PassCredit(b, k, stop) ==
  IF stop /\ PassValue(b, k, stop) < CONVERGENCE_THRESHOLD THEN 0
  ELSE IF b[k] \in ActiveSet THEN FMul(PassValue(b, k, stop), keep_rate[b[k]])
  ELSE 0

PassValue(b, k, stop) ==
  IF k = 1 THEN SCALE
  ELSE PassValue(b, k - 1, stop) - PassCredit(b, k - 1, stop)

Listings(c) ==
  {p \in (1..Len(votes)) \X (1..Len(candidate_names)) :
     p[2] <= Len(votes[p[1]]) /\ votes[p[1]][p[2]] = c}

CreditedTo(c, stop) ==
  SumOver(Listings(c),
          [p \in Listings(c) |-> PassCredit(votes[p[1]], p[2], stop)])

\* C12 as claimed: after a pass every candidate's votes are the sum, over
\* its listings, of remaining value times keep rate if it is Active and 0
\* otherwise, the credit being subtracted from the ballot's value; so an
\* Elected or Eliminated candidate has votes 0.
C12_Original ==
  JustRecalculated =>
    /\ \A c \in Candidates : cand_votes[c] = CreditedTo(c, FALSE)
    /\ \A c \in Candidates \ ActiveSet : cand_votes[c] = 0

\* C12 (amended): the same, for the preferences reached while the ballot's
\* remaining value is at least the convergence threshold; once it is below,
\* the walk stops and the later preferences are credited nothing.
C12_PassRule ==
  JustRecalculated =>
    /\ \A c \in Candidates : cand_votes[c] = CreditedTo(c, TRUE)
    /\ \A c \in Candidates \ ActiveSet : cand_votes[c] = 0

\* a pass in which a ballot went undiminished over an Elected or Eliminated
\* first preference with a positive keep rate to an Active second one, and
\* in which a walk stopped short of a listed Active candidate
C12_Witness ==
  /\ pc = "recalculated"
  /\ \E n \in 1..Len(votes) :
       /\ Len(votes[n]) >= 2
       /\ votes[n][1] \notin ActiveSet
       /\ keep_rate[votes[n][1]] > 0
       /\ cand_votes[votes[n][1]] = 0
       /\ votes[n][2] \in ActiveSet
       /\ PassCredit(votes[n], 2, TRUE) = FMul(SCALE, keep_rate[votes[n][2]])
       /\ PassCredit(votes[n], 2, TRUE) > 0
  /\ \E n \in 1..Len(votes) : \E k \in 2..Len(votes[n]) :
       /\ votes[n][k] \in ActiveSet
       /\ keep_rate[votes[n][k]] = SCALE
       /\ PassValue(votes[n], k, TRUE) > 0
       /\ PassValue(votes[n], k, TRUE) < CONVERGENCE_THRESHOLD

LoopReturned == pc \in {"eliminate", "decide"}

\* C13: when the convergence loop returns, every candidate's votes are the
\* result of a redistribution pass over the keep rates and statuses of that
\* moment, so the elimination and the terminal decision read no votes of
\* older keep rates.
C13_VotesFreshAtReturn ==
  LoopReturned => cand_votes = RecalculateVotes(votes, keep_rate, ActiveSet)

\* the loop returned after an iteration that still changed a keep rate (by
\* less than the threshold), and the votes are those of the new keep rates,
\* not of the snapshot
C13_Witness ==
  /\ LoopReturned
  /\ keep_rate # previous_keep_rates
  /\ cand_votes = RecalculateVotes(votes, keep_rate, ActiveSet)
  /\ cand_votes # RecalculateVotes(votes, previous_keep_rates, ActiveSet)

NobodyOverQuota == \A c \in ActiveSet : cand_votes[c] <= QuotaUnits

\* C14: in an iteration whose redistribution leaves no Active candidate
\* strictly above the quota, no keep rate changes (the change summed against
\* the snapshot is 0) and the loop stops in that iteration; an Active
\* candidate above the quota gets keepRate * quota / votes, everybody else
\* keeps its rate.
C14_IterationUpdate ==
  [][pc = "meek_update" =>
       /\ NobodyOverQuota =>
            /\ keep_rate' = keep_rate
            /\ keep_rate' = previous_keep_rates
            /\ pc' = "meek_final"
       /\ \A c \in Candidates :
            keep_rate'[c] =
              IF IsActive(c) /\ cand_votes[c] > QuotaUnits
              THEN RoundDiv(keep_rate[c]
                              * RoundDiv(QuotaUnits * SCALE, cand_votes[c]),
                            SCALE)
              ELSE keep_rate[c]]_vars

\* the loop stopped in an iteration with nobody above the quota, one
\* candidate exactly at the quota with a keep rate shrunk in an earlier
\* iteration and left alone in this one
C14_Witness ==
  /\ pc = "meek_final"
  /\ i >= 2
  /\ NobodyOverQuota
  /\ keep_rate = previous_keep_rates
  /\ \E c \in ActiveSet : cand_votes[c] = QuotaUnits /\ keep_rate[c] < SCALE

InMeekIteration ==
  pc \in {"meek_reset", "meek_recalc", "meek_update", "meek_final"}

\* C15: a run of the convergence loop starts by setting the keep rate of
\* every Active candidate to 1.0, whatever it was in the previous round, and
\* no step of the run changes the keep rate of an Elected or Eliminated
\* candidate.
C15_ResetActiveOnly ==
  [][/\ pc = "meek_reset" =>
          \A c \in ActiveSet : keep_rate'[c] = SCALE
     /\ InMeekIteration =>
          \A c \in Candidates \ ActiveSet : keep_rate'[c] = keep_rate[c]]_vars

\* the second round's loop has just been entered: a survivor whose keep rate
\* the first round had shrunk is back at 1.0, next to an Eliminated candidate
C15_Witness ==
  /\ pc = "meek_recalc"
  /\ i = 0
  /\ round_num >= 2
  /\ \E c \in ActiveSet : keep_rate[c] = SCALE /\ previous_keep_rates[c] < SCALE
  /\ \E c \in Candidates : is_loser[c]

\* the loop has used up its iterations and the last one still changed the
\* keep rates by the threshold or more
CapReached ==
  /\ i = MAX_ITERATIONS
  /\ RateChanged(keep_rate, previous_keep_rates) >= CONVERGENCE_THRESHOLD

AllDecided == \A c \in Candidates : is_winner[c] \/ is_loser[c]

\* C16: the convergence loop never performs more than MAX_ITERATIONS
\* iterations; when the cap is reached without convergence the loop is left
\* for the final redistribution with the keep rates just computed, which the
\* elimination or the terminal decision then uses, and the run goes on to
\* its end, where every candidate is Elected or Eliminated.
C16_CapIsNotFatal ==
  /\ [](i <= MAX_ITERATIONS /\ (pc = "meek_recalc" => i < MAX_ITERATIONS))
  /\ [][(pc = "meek_update" /\ i + 1 = MAX_ITERATIONS)
          => /\ pc' = "meek_final"
             /\ keep_rate' = [c \in Candidates |-> UpdatedKeepRate(c)]
             /\ is_winner' = is_winner /\ is_loser' = is_loser]_vars
  /\ [][(pc = "meek_final" /\ CapReached)
          => /\ pc' = IF final_round THEN "decide" ELSE "eliminate"
             /\ keep_rate' = keep_rate
             /\ cand_votes' = RecalculateVotes(votes, keep_rate, ActiveSet)]_vars
  /\ [](pc = "done" => AllDecided)
  /\ <>(pc = "done")

\* a run that ended, every candidate decided, after its terminal round's
\* loop had hit the cap unconverged
C16_Witness ==
  /\ pc = "done"
  /\ CapReached
  /\ keep_rate # previous_keep_rates
  /\ AllDecided

\* C17: in every state of a run every candidate's keep rate is positive and
\* at most 1.
C17_KeepRateInRange ==
  \A c \in Candidates : 0 < keep_rate[c] /\ keep_rate[c] <= SCALE

\* inside a loop with a positive quota, after a keep rate has been shrunk to
\* less than a half
C17_Witness ==
  /\ pc = "meek_recalc"
  /\ droop_quota > 0
  /\ i >= 1
  /\ \E c \in ActiveSet : 0 < keep_rate[c] /\ 2 * keep_rate[c] < SCALE

\* C18: every run with at least one valid ballot terminates: each
\* non-terminal round eliminates at least one Active candidate, there are at
\* most (number of candidates - numWinners) of them, and the one terminal
\* round that follows leaves the main loop.
C18_Termination ==
  /\ [][pc = "eliminate" =>
          Cardinality(ActiveSet') < Cardinality(ActiveSet)]_vars
  /\ [](InRun => round_num - 1 <= Cardinality(Candidates) - num_winners)
  /\ [][(pc = "decide" => final_round /\ pc' = "display")
        /\ (pc = "display" => pc' = "done")
        /\ (pc = "done" => pc' = "done")]_vars
  /\ [](pc = "eliminate" => ~final_round)
  /\ (pc = "loaded" /\ Len(votes) >= 1) ~> (pc = "done")

\* a run that ended after as many non-terminal rounds as there can be, each
\* of which eliminated one candidate
C18_Witness ==
  /\ pc = "done"
  /\ num_winners = 1
  /\ round_num - 1 = Cardinality(Candidates) - num_winners
  /\ Cardinality(active_candidates) = 1

Elected == {c \in Candidates : is_winner[c]}

\* C19: at no point of a run are more than numWinners candidates Elected;
\* fewer may be, and a run can end with seats unfilled.
C19_SeatBound ==
  /\ Cardinality(Elected) <= num_winners
  /\ (pc \in {"display", "done"}
        /\ Cardinality(active_candidates) < num_winners)
       => Cardinality(Elected) < num_winners

\* a finished run that left seats unfilled
C19_Witness ==
  /\ pc = "done"
  /\ Len(votes) >= 1
  /\ round_num >= 2
  /\ active_candidates = {}
  /\ Cardinality(Elected) < num_winners

\* C20: no candidate is ever both Elected and Eliminated, and a status is
\* only ever given to a candidate that was Active.
C20_StatusWellFormed ==
  /\ [](\A c \in Candidates : ~(is_winner[c] /\ is_loser[c]))
  /\ [][\A c \in Candidates :
          (is_winner'[c] # is_winner[c] \/ is_loser'[c] # is_loser[c])
            => (IsActive(c) /\ c \in active_candidates)]_vars

\* a terminal round has just given both statuses, each to a candidate that
\* was Active
C20_Witness ==
  /\ pc = "display"
  /\ \E c, d \in active_candidates : is_winner[c] /\ is_loser[d]
====
